---- MODULE Spec2Model ----
(***************************************************************************)
(* Model of src/forwarder.ts: addCloudWatchForwarderSubscriptions, which   *)
(* adds an AWS::Logs::SubscriptionFilter resource to the compiled          *)
(* CloudFormation template for every Lambda log group, after validating    *)
(* the forwarder and checking the live subscription filters of each log    *)
(* group against the limit of two.                                         *)
(*                                                                         *)
(* Strings the code inspects (resource names, log group names, filter      *)
(* names) are sequences of one-character strings, so that startsWith and   *)
(* template-string concatenation are computed and not assumed.  A template *)
(* is the ordered list of [name, resource] entries of the Resources object *)
(* (Object.entries order is insertion order).  A resource is flattened to  *)
(* one record: LogGroupName is Properties.LogGroupName when it is a        *)
(* string, Ref is Properties.LogGroupName.Ref when it is a reference.      *)
(***************************************************************************)
EXTENDS Integers, Sequences, FiniteSets, TLC

\* ---------------------------------------------------------------- bounds
MaxResources == 2
MaxFilters == 2
MaxRuns == 2

\* ------------------------------------------------------------- constants
logGroupKey == "AWS::Logs::LogGroup"
logGroupSubscriptionKey == "AWS::Logs::SubscriptionFilter"
maxAllowableLogGroupSubscriptions == 2

LambdaPrefix == <<"/", "a", "w", "s", "/", "l", "a", "m", "b", "d", "a", "/">>
SubscriptionSuffix == <<"S", "u", "b", "s", "c", "r", "i", "p", "t", "i", "o", "n">>
Dash == <<"-">>

NoStackMsg == "No cloudformation stack available. Skipping subscribing Datadog forwarder."
SkipValidationMsg == "Skipping forwarder ARN validation because forwarder string defined with CloudFormation function."
TooManyMsg == "Could not subscribe Datadog Forwarder due to too many existing subscription filter(s) for ${logGroupName}."

\* ------------------------------------------------------------ the inputs
\* Resource names of the template.
NameA == <<"A">>
NameB == <<"B">>
NameASub == NameA \o SubscriptionSuffix
ResourceNames == {NameA, NameB, NameASub}

\* Log group names: two managed by Lambda, one not.
LgA == LambdaPrefix \o <<"a">>
LgB == LambdaPrefix \o <<"b">>
LgC == <<"/", "v", "a", "r", "/", "c">>
LambdaLogGroupNames == {LgA, LgB}
LogGroupNames == {LgA, LgB, LgC}

\* The forwarder: a literal ARN (typeof "string") or a CloudFormation object.
ArnString == [kind |-> "string", value |-> "arn:aws:lambda:forwarder"]
ArnObject == [kind |-> "object", value |-> "Fn::Sub"]
NoArn == [kind |-> "undefined", value |-> ""]
OldArn == [kind |-> "string", value |-> "arn:aws:lambda:old"]

\* service.getServiceName(), aws.getStage(), aws.naming.getStackName()
ServiceName == <<"s", "v">>
Stage == <<"d">>
StackNames == {<< >>, <<"s", "t">>}

LogGroupResource(lg) ==
    [Type |-> logGroupKey, LogGroupName |-> lg, Ref |-> << >>,
     DestinationArn |-> NoArn, FilterPattern |-> ""]

SubscriptionResource(arn, name) ==
    [Type |-> logGroupSubscriptionKey, LogGroupName |-> << >>, Ref |-> name,
     DestinationArn |-> arn, FilterPattern |-> ""]

\* The resources a template may hold before the run: log groups and a
\* subscription filter left by an earlier deployment.
InitialResources ==
    {LogGroupResource(LgA), LogGroupResource(LgB), LogGroupResource(LgC),
     SubscriptionResource(OldArn, NameA)}

\* ------------------------------------------------------- string helpers
startsWith(s, p) == Len(p) <= Len(s) /\ SubSeq(s, 1, Len(p)) = p

\* ---------------------------------------------------- template helpers
HasKey(res, n) == \E k \in DOMAIN res : res[k].name = n

Get(res, n) == res[CHOOSE k \in DOMAIN res : res[k].name = n].resource


\* Variant: the assignment always adds an entry, also for an existing key.
SetResourceAppends(res, n, r) == Append(res, [name |-> n, resource |-> r])

\* resources[n] = r : an existing key keeps its position, a new key is appended.
SetResource(res, n, r) ==
    IF HasKey(res, n)
    THEN [k \in DOMAIN res |->
            IF res[k].name = n THEN [name |-> n, resource |-> r] ELSE res[k]]
    ELSE Append(res, [name |-> n, resource |-> r])

isLogGroup(value) == value.Type = logGroupKey


\* Variant: the "/aws/lambda/" test of line 75 is missing.
IsLambdaLogGroupAnyPrefix(resource) == isLogGroup(resource)

IsLambdaLogGroup(resource) ==
    isLogGroup(resource) /\ startsWith(resource.LogGroupName, LambdaPrefix)

scopedSubName(name) == name \o SubscriptionSuffix

ServiceForm(name) ==
    ServiceName \o Dash \o Stage \o Dash \o scopedSubName(name) \o Dash

StackForm(stack, name) == stack \o Dash \o scopedSubName(name) \o Dash


\* Variant: the stack name never overrides the service and stage form.
ExpectedSubNameServiceOnly(stack, name) == ServiceForm(name)

ExpectedSubName(stack, name) ==
    IF stack # << >> THEN StackForm(stack, name) ELSE ServiceForm(name)

\* ---------------------------------------------------------- live state
\* Names of live subscription filters: one created by an earlier deployment
\* of stack "st" for resource A, one named after service and stage for the
\* same resource, and one that belongs to somebody else.
OwnStackFilter == StackForm(<<"s", "t">>, NameA) \o <<"X">>
OwnServiceFilter == ServiceForm(NameA) \o <<"X">>
UnrelatedFilter == <<"u">>
FilterNames == {OwnStackFilter, OwnServiceFilter, UnrelatedFilter}

FilterLists(names) == UNION {[1..n -> names] : n \in 0..MaxFilters}

\* What CloudWatchLogs answers for one log group: the request fails (the
\* log group does not exist yet) or returns its subscription filters.  The
\* first log group holds any list of the filter names; the others are
\* either missing or at the limit with filters of somebody else.
LiveAnswers(lg) ==
    {[ok |-> FALSE, subscriptionFilters |-> << >>]}
        \cup {[ok |-> TRUE, subscriptionFilters |-> f] :
                f \in (IF lg = LgA THEN FilterLists(FilterNames)
                       ELSE {<<UnrelatedFilter, UnrelatedFilter>>})}

Templates ==
    {[hasResources |-> FALSE, Resources |-> << >>]}
        \cup {[hasResources |-> TRUE, Resources |-> res] :
                res \in {r \in UNION {[1..n -> [name : ResourceNames, resource : InitialResources]] :
                                        n \in 0..MaxResources} :
                           \A i, j \in DOMAIN r : r[i].name = r[j].name => i = j}}

\* The Lambda log group names a template declares; only these are looked up,
\* so only these have live state that matters.
Declared(t) ==
    {t.Resources[k].resource.LogGroupName :
        k \in {j \in DOMAIN t.Resources : IsLambdaLogGroup(t.Resources[j].resource)}}

\* The live states for a template: a log group the template does not declare
\* does not exist, the others answer anything.
LiveStates(t) ==
    LET declared == Declared(t)
        Answers(lg) == IF lg \in declared
                       THEN LiveAnswers(lg)
                       ELSE {[ok |-> FALSE, subscriptionFilters |-> << >>]}
    IN  {[lg \in LogGroupNames |-> IF lg = LgA THEN a ELSE IF lg = LgB THEN b ELSE c] :
            a \in Answers(LgA), b \in Answers(LgB), c \in Answers(LgC)}

\* ------------------------------------------------------------- the state
VARIABLES
    template,        \* service.provider.compiledCloudFormationTemplate
    functionArn,     \* the forwarder argument
    stackName,       \* aws.naming.getStackName()
    forwarderExists, \* whether Lambda getFunction succeeds on a literal ARN
    live,            \* log group name -> answer of describeSubscriptionFilters
    pc,              \* "start", "loop", "returned", "thrown"
    entries,         \* the array Object.entries(resources) built at line 74
    idx,             \* position of the for loop in entries
    errors,          \* the local array errors
    result,          \* the value returned, << >> until the run returns
    thrown,          \* name of the error raised, "" if none
    requests,        \* aws.request calls issued in this run, in order
    decisions,       \* canSubscribeLogGroup calls of this run, in order
    run,             \* number of the current run
    template0,       \* the template when the current run started
    prevTemplate,    \* the template when the previous run ended
    prevErrors       \* the errors of the previous run

world == <<functionArn, stackName, forwarderExists, live>>
history == <<run, template0, prevTemplate, prevErrors>>
vars == <<template, functionArn, stackName, forwarderExists, live, pc, entries,
          idx, errors, result, thrown, requests, decisions, run, template0,
          prevTemplate, prevErrors>>

Warning(msg, lg) == [msg |-> msg, logGroupName |-> lg]

Request(svc, method, arg) == [service |-> svc, method |-> method, arg |-> arg]

Init ==
    /\ template \in Templates
    /\ functionArn \in {ArnString, ArnObject}
    /\ stackName \in StackNames
    /\ forwarderExists \in (IF functionArn.kind = "string" THEN BOOLEAN ELSE {FALSE})
    /\ live \in LiveStates(template)
    /\ pc = "start"
    /\ entries = << >>
    /\ idx = 1
    /\ errors = << >>
    /\ result = << >>
    /\ thrown = ""
    /\ requests = << >>
    /\ decisions = << >>
    /\ run = 1
    /\ template0 = template
    /\ prevTemplate = template
    /\ prevErrors = << >>

\* ------------------------------------------------------- the operations
\* describeSubscriptionFilters: a failed request is swallowed.
describeSubscriptionFilters(lv, logGroupName) ==
    IF lv[logGroupName].ok THEN lv[logGroupName].subscriptionFilters ELSE << >>

\* The for loop of canSubscribeLogGroup over subscriptionFilters[k..].
RECURSIVE FoundDatadogSubscriptionFilter(_, _, _, _)
FoundDatadogSubscriptionFilter(subscriptionFilters, expectedSubName, k, found) ==
    IF k > Len(subscriptionFilters) THEN found
    ELSE FoundDatadogSubscriptionFilter(subscriptionFilters, expectedSubName, k + 1,
            IF startsWith(subscriptionFilters[k], expectedSubName) THEN TRUE ELSE found)


\* Variant: the limit is compared with > instead of >=.
canSubscribeLogGroupOffByOne(lv, logGroupName, expectedSubName) ==
    LET subscriptionFilters == describeSubscriptionFilters(lv, logGroupName)
        numberOfActiveSubscriptionFilters == Len(subscriptionFilters)
        foundDatadogSubscriptionFilter ==
            FoundDatadogSubscriptionFilter(subscriptionFilters, expectedSubName, 1, FALSE)
    IN  IF ~foundDatadogSubscriptionFilter
           /\ numberOfActiveSubscriptionFilters > maxAllowableLogGroupSubscriptions
        THEN FALSE
        ELSE TRUE

canSubscribeLogGroup(lv, logGroupName, expectedSubName) ==
    LET subscriptionFilters == describeSubscriptionFilters(lv, logGroupName)
        numberOfActiveSubscriptionFilters == Len(subscriptionFilters)
        foundDatadogSubscriptionFilter ==
            FoundDatadogSubscriptionFilter(subscriptionFilters, expectedSubName, 1, FALSE)
    IN  IF ~foundDatadogSubscriptionFilter
           /\ numberOfActiveSubscriptionFilters >= maxAllowableLogGroupSubscriptions
        THEN FALSE
        ELSE TRUE


\* Variant: a missing Resources section returns the empty errors array.
NoResourcesEmpty ==
    /\ pc = "start"
    /\ ~template.hasResources
    /\ result' = errors
    /\ pc' = "returned"
    /\ UNCHANGED <<template, world, entries, idx, errors, thrown, requests,
                   decisions, history>>

\* Lines 64-67: the template has no Resources.
NoResources ==
    /\ pc = "start"
    /\ ~template.hasResources
    /\ result' = <<Warning(NoStackMsg, << >>)>>
    /\ pc' = "returned"
    /\ UNCHANGED <<template, world, entries, idx, errors, thrown, requests,
                   decisions, history>>


\* Variant: the skipped validation is not reported.
SkipValidationSilent ==
    /\ pc = "start"
    /\ template.hasResources
    /\ functionArn.kind # "string"
    /\ errors' = errors
    /\ entries' = template.Resources
    /\ idx' = 1
    /\ pc' = "loop"
    /\ UNCHANGED <<template, world, result, thrown, requests, decisions, history>>

\* Lines 69-70 and 74: the forwarder is not a string; validation is skipped.
SkipValidation ==
    /\ pc = "start"
    /\ template.hasResources
    /\ functionArn.kind # "string"
    /\ errors' = Append(errors, Warning(SkipValidationMsg, << >>))
    /\ entries' = template.Resources
    /\ idx' = 1
    /\ pc' = "loop"
    /\ UNCHANGED <<template, world, result, thrown, requests, decisions, history>>


\* Variant: the failure of getFunction is swallowed and the loop starts.
validateForwarderArnSwallows ==
    /\ pc = "start"
    /\ template.hasResources
    /\ functionArn.kind = "string"
    /\ requests' = Append(requests, Request("Lambda", "getFunction", << >>))
    /\ entries' = template.Resources
    /\ idx' = 1
    /\ pc' = "loop"
    /\ UNCHANGED <<template, world, errors, result, thrown, decisions, history>>

\* Lines 72 and 51-57: validateForwarderArn; then the loop starts (line 74).
validateForwarderArn ==
    /\ pc = "start"
    /\ template.hasResources
    /\ functionArn.kind = "string"
    /\ requests' = Append(requests, Request("Lambda", "getFunction", << >>))
    /\ IF forwarderExists
       THEN /\ entries' = template.Resources
            /\ idx' = 1
            /\ pc' = "loop"
            /\ thrown' = thrown
       ELSE /\ thrown' = "DatadogForwarderNotFoundError"
            /\ pc' = "thrown"
            /\ UNCHANGED <<entries, idx>>
    /\ UNCHANGED <<template, world, errors, result, decisions, history>>

\* Lines 75-77: the entry is not a Lambda log group.
SkipEntry ==
    /\ pc = "loop"
    /\ idx <= Len(entries)
    /\ ~IsLambdaLogGroup(entries[idx].resource)
    /\ idx' = idx + 1
    /\ UNCHANGED <<template, world, pc, entries, errors, result, thrown,
                   requests, decisions, history>>

\* Variant: the continue of line 93 is missing, the subscription is added
\* after the warning.
ProcessLogGroupNoContinue ==
    /\ pc = "loop"
    /\ idx <= Len(entries)
    /\ IsLambdaLogGroup(entries[idx].resource)
    /\ LET name == entries[idx].name
           logGroupName == entries[idx].resource.LogGroupName
           expectedSubName == ExpectedSubName(stackName, name)
           canSub == canSubscribeLogGroup(live, logGroupName, expectedSubName)
       IN  /\ requests' = Append(requests,
                Request("CloudWatchLogs", "describeSubscriptionFilters", logGroupName))
           /\ decisions' = Append(decisions,
                [name |-> name, logGroupName |-> logGroupName,
                 expectedSubName |-> expectedSubName,
                 subscriptionFilters |-> describeSubscriptionFilters(live, logGroupName),
                 failed |-> ~live[logGroupName].ok,
                 canSub |-> canSub])
           /\ errors' = IF ~canSub
                        THEN Append(errors, Warning(TooManyMsg, logGroupName))
                        ELSE errors
           /\ template' = [template EXCEPT !.Resources =
                            SetResource(@, scopedSubName(name),
                                        SubscriptionResource(functionArn, name))]
    /\ idx' = idx + 1
    /\ UNCHANGED <<world, pc, entries, result, thrown, history>>

\* Variant: a failed describeSubscriptionFilters request is not caught.
ProcessLogGroupRethrows ==
    /\ pc = "loop"
    /\ idx <= Len(entries)
    /\ IsLambdaLogGroup(entries[idx].resource)
    /\ LET name == entries[idx].name
           logGroupName == entries[idx].resource.LogGroupName
           expectedSubName == ExpectedSubName(stackName, name)
           canSub == canSubscribeLogGroup(live, logGroupName, expectedSubName)
       IN  /\ requests' = Append(requests,
                Request("CloudWatchLogs", "describeSubscriptionFilters", logGroupName))
           /\ decisions' = Append(decisions,
                [name |-> name, logGroupName |-> logGroupName,
                 expectedSubName |-> expectedSubName,
                 subscriptionFilters |-> describeSubscriptionFilters(live, logGroupName),
                 failed |-> ~live[logGroupName].ok,
                 canSub |-> canSub])
           /\ IF ~live[logGroupName].ok
              THEN /\ pc' = "thrown"
                   /\ thrown' = "Error"
                   /\ UNCHANGED <<errors, template>>
              ELSE /\ UNCHANGED <<pc, thrown>>
                   /\ IF ~canSub
                      THEN /\ errors' = Append(errors, Warning(TooManyMsg, logGroupName))
                           /\ template' = template
                      ELSE /\ template' = [template EXCEPT !.Resources =
                                SetResource(@, scopedSubName(name),
                                            SubscriptionResource(functionArn, name))]
                           /\ errors' = errors
    /\ idx' = idx + 1
    /\ UNCHANGED <<world, entries, result, history>>

\* Lines 78-104: one Lambda log group.
ProcessLogGroup ==
    /\ pc = "loop"
    /\ idx <= Len(entries)
    /\ IsLambdaLogGroup(entries[idx].resource)
    /\ LET name == entries[idx].name
           logGroupName == entries[idx].resource.LogGroupName
           expectedSubName == ExpectedSubName(stackName, name)
           canSub == canSubscribeLogGroup(live, logGroupName, expectedSubName)
       IN  /\ requests' = Append(requests,
                Request("CloudWatchLogs", "describeSubscriptionFilters", logGroupName))
           /\ decisions' = Append(decisions,
                [name |-> name, logGroupName |-> logGroupName,
                 expectedSubName |-> expectedSubName,
                 subscriptionFilters |-> describeSubscriptionFilters(live, logGroupName),
                 failed |-> ~live[logGroupName].ok,
                 canSub |-> canSub])
           /\ IF ~canSub
              THEN /\ errors' = Append(errors, Warning(TooManyMsg, logGroupName))
                   /\ template' = template
              ELSE /\ template' = [template EXCEPT !.Resources =
                        SetResource(@, scopedSubName(name),
                                    SubscriptionResource(functionArn, name))]
                   /\ errors' = errors
    /\ idx' = idx + 1
    /\ UNCHANGED <<world, pc, entries, result, thrown, history>>

\* Line 106.
Return ==
    /\ pc = "loop"
    /\ idx > Len(entries)
    /\ result' = errors
    /\ pc' = "returned"
    /\ UNCHANGED <<template, world, entries, idx, errors, thrown, requests,
                   decisions, history>>

\* The next deployment: the function is called again on the same template
\* object and the same live state.
Rerun ==
    /\ pc \in {"returned", "thrown"}
    /\ run < MaxRuns
    /\ run' = run + 1
    /\ prevTemplate' = template
    /\ prevErrors' = result
    /\ template0' = template
    /\ pc' = "start"
    /\ entries' = << >>
    /\ idx' = 1
    /\ errors' = << >>
    /\ result' = << >>
    /\ thrown' = ""
    /\ requests' = << >>
    /\ decisions' = << >>
    /\ UNCHANGED <<template, world>>

Next ==
    \/ NoResources
    \/ SkipValidation
    \/ validateForwarderArn
    \/ SkipEntry
    \/ ProcessLogGroup
    \/ Return
    \/ Rerun

Spec == Init /\ [][Next]_vars

TypeOK ==
    /\ pc \in {"start", "loop", "returned", "thrown"}
    /\ run \in 1..MaxRuns
    /\ idx \in 1..(Len(entries) + 1)

\* ============================================================ properties
Matches(d) ==
    \E j \in DOMAIN d.subscriptionFilters :
        startsWith(d.subscriptionFilters[j], d.expectedSubName)

CountWarnings(seq, lg) ==
    Cardinality({k \in DOMAIN seq :
                    seq[k].msg = TooManyMsg /\ seq[k].logGroupName = lg})

\* The Lambda log groups of the template the run started from.
LambdaEntries ==
    {k \in DOMAIN template0.Resources : IsLambdaLogGroup(template0.Resources[k].resource)}

\* Entry k has two or more live filters and none starts with its prefix.
OverQuota(k) ==
    LET e == template0.Resources[k]
        ans == live[e.resource.LogGroupName]
    IN  /\ ans.ok
        /\ Len(ans.subscriptionFilters) >= 2
        /\ \A j \in DOMAIN ans.subscriptionFilters :
              ~startsWith(ans.subscriptionFilters[j], ExpectedSubName(stackName, e.name))

\* The key n holds in the template what it held when the run started.
KeyUntouched(n) ==
    IF HasKey(template0.Resources, n)
    THEN HasKey(template.Resources, n)
         /\ Get(template.Resources, n) = Get(template0.Resources, n)
    ELSE ~HasKey(template.Resources, n)

\* C1: every call of canSubscribeLogGroup follows the decision table: true
\* when some live filter name starts with expectedSubName, false when none
\* does and there are two or more live filters, true when none does and
\* there are fewer than two.
C1_DecisionTable ==
    \A k \in DOMAIN decisions :
        LET d == decisions[k]
            n == Len(d.subscriptionFilters)
        IN  /\ Matches(d) => d.canSub
            /\ ~Matches(d) /\ n >= 2 => ~d.canSub
            /\ ~Matches(d) /\ n < 2 => d.canSub

C1_Witness ==
    \E k \in DOMAIN decisions :
        /\ Matches(decisions[k])
        /\ Len(decisions[k].subscriptionFilters) >= 2
        /\ decisions[k].canSub
        /\ \E j \in DOMAIN decisions :
              ~Matches(decisions[j]) /\ Len(decisions[j].subscriptionFilters) = 2
              /\ ~decisions[j].canSub

\* A getFunction request was issued in this run and failed.
GetFunctionFailed ==
    /\ \E k \in DOMAIN requests : requests[k].method = "getFunction"
    /\ ~forwarderExists

\* C2: when the forwarder is a literal ARN and the getFunction lookup fails,
\* DatadogForwarderNotFoundError is raised, the template is as it was before
\* the call, no describeSubscriptionFilters request was issued and nothing
\* is returned.
C2_FatalGating ==
    (functionArn.kind = "string" /\ GetFunctionFailed) =>
        /\ pc = "thrown"
        /\ thrown = "DatadogForwarderNotFoundError"
        /\ template = template0
        /\ \A k \in DOMAIN requests : requests[k].method # "describeSubscriptionFilters"
        /\ decisions = << >>
        /\ result = << >>

C2_Witness ==
    /\ pc = "thrown"
    /\ functionArn.kind = "string"
    /\ GetFunctionFailed
    /\ LambdaEntries # {}

\* C3 (as claimed): a Lambda log group with two or more live filters, none
\* starting with the expected prefix, gets no "<name>Subscription" resource,
\* the returned sequence holds exactly one warning naming its LogGroupName,
\* and the run goes on to the other log groups.
C3_Original ==
    /\ pc = "thrown" => decisions = << >>
    /\ \A k \in LambdaEntries :
          OverQuota(k) =>
            /\ KeyUntouched(scopedSubName(template0.Resources[k].name))
            /\ pc = "returned" =>
                  /\ CountWarnings(result, template0.Resources[k].resource.LogGroupName) = 1
                  /\ Len(decisions) = Cardinality(LambdaEntries)

\* C3 (amended): as above, with exactly one warning for each such log group:
\* the returned sequence holds as many warnings naming a LogGroupName as
\* there are such log groups with that name.
C3_QuotaRespected ==
    /\ pc = "thrown" => decisions = << >>
    /\ \A k \in LambdaEntries :
          OverQuota(k) =>
            /\ KeyUntouched(scopedSubName(template0.Resources[k].name))
            /\ pc = "returned" =>
                  /\ CountWarnings(result, template0.Resources[k].resource.LogGroupName)
                        = Cardinality({j \in LambdaEntries :
                                         /\ OverQuota(j)
                                         /\ template0.Resources[j].resource.LogGroupName
                                              = template0.Resources[k].resource.LogGroupName})
                  /\ Len(decisions) = Cardinality(LambdaEntries)

C3_Witness ==
    /\ pc = "returned"
    /\ \E k, j \in LambdaEntries :
          /\ OverQuota(k)
          /\ ~OverQuota(j)
          /\ k < j
          /\ HasKey(template.Resources, scopedSubName(template0.Resources[j].name))
          /\ ~HasKey(template.Resources, scopedSubName(template0.Resources[k].name))

\* The keys of the subscription filters this run has created so far.
CreatedKeys ==
    {scopedSubName(decisions[k].name) :
        k \in {j \in DOMAIN decisions : decisions[j].canSub}}

\* C4: at the end of the run, every SubscriptionFilter the run created
\* refers through its LogGroupName Ref to a resource of the same template
\* that is a LogGroup.
C4_RefIsLogGroup ==
    pc = "returned" =>
        \A n \in CreatedKeys :
            /\ HasKey(template.Resources, n)
            /\ LET ref == Get(template.Resources, n).Ref
               IN  /\ HasKey(template.Resources, ref)
                   /\ isLogGroup(Get(template.Resources, ref))

\* The subscription filters of a template, in order.
IsSubscription(e) == e.resource.Type = logGroupSubscriptionKey

SubscriptionResources(t) == SelectSeq(t.Resources, IsSubscription)

UniqueKeys(t) ==
    \A i, j \in DOMAIN t.Resources :
        t.Resources[i].name = t.Resources[j].name => i = j

\* C5: after a second run on the same template and live state the
\* subscription resources are those left by the first run, no key occurs
\* twice, and a log group whose own filter is live gets no warning: the
\* warnings naming a log group are as many as the decisions on it that found
\* no own filter among two or more.
C5_Idempotent ==
    (run >= 2 /\ pc \in {"returned", "thrown"}) =>
        /\ SubscriptionResources(template) = SubscriptionResources(prevTemplate)
        /\ UniqueKeys(template)
        /\ \A k \in DOMAIN decisions : Matches(decisions[k]) => decisions[k].canSub
        /\ \A lg \in LambdaLogGroupNames :
              CountWarnings(result, lg)
                = Cardinality({k \in DOMAIN decisions :
                                  /\ decisions[k].logGroupName = lg
                                  /\ ~Matches(decisions[k])
                                  /\ Len(decisions[k].subscriptionFilters) >= 2})

C5_Witness ==
    /\ run = 2
    /\ pc = "returned"
    /\ Len(SubscriptionResources(template)) >= 2
    /\ \E k \in DOMAIN decisions :
          Matches(decisions[k]) /\ Len(decisions[k].subscriptionFilters) >= 2

\* Entry k is a Lambda log group that canSubscribeLogGroup admits.
Admitted(k) ==
    LET e == template0.Resources[k]
    IN  canSubscribeLogGroup(live, e.resource.LogGroupName,
                             ExpectedSubName(stackName, e.name))

ExpressionBypass ==
    /\ \A k \in DOMAIN requests : requests[k].method # "getFunction"
    /\ pc # "thrown"
    /\ thrown = ""
    /\ pc \in {"start", "loop"} =>
          ENABLED (NoResources \/ SkipValidation \/ SkipEntry \/ ProcessLogGroup \/ Return)
    /\ pc = "returned" =>
          /\ Len(result) >= 1
          /\ result[1] = Warning(SkipValidationMsg, << >>)
          /\ Cardinality({k \in DOMAIN result : result[k].msg = SkipValidationMsg}) = 1
          /\ \A k \in LambdaEntries :
                Admitted(k) =>
                    LET n == scopedSubName(template0.Resources[k].name)
                    IN  /\ HasKey(template.Resources, n)
                        /\ Get(template.Resources, n)
                             = SubscriptionResource(functionArn, template0.Resources[k].name)

\* C6 (as claimed): when the forwarder is not a string, no getFunction
\* request is issued, nothing is raised, the returned sequence starts with
\* the single "skipping validation" warning and every admitted Lambda log
\* group has its subscription with the expression as DestinationArn.
C6_Original == functionArn.kind # "string" => ExpressionBypass

\* C6 (amended): the same, for a template that has a Resources section.
C6_ExpressionBypass ==
    (functionArn.kind # "string" /\ template.hasResources) => ExpressionBypass

C6_Witness ==
    /\ functionArn.kind # "string"
    /\ pc = "returned"
    /\ \E k, j \in LambdaEntries : Admitted(k) /\ ~Admitted(j)
    /\ Len(result) = 2

\* C7: without a Resources section the run returns exactly one
\* informational string, raises nothing, issues no request and changes
\* nothing, whatever the forwarder is.
C7_NoResourcesNoOp ==
    ~template0.hasResources =>
        /\ pc \in {"start", "returned"}
        /\ thrown = ""
        /\ requests = << >>
        /\ decisions = << >>
        /\ template = template0
        /\ pc = "returned" => result = <<Warning(NoStackMsg, << >>)>>

C7_Witness ==
    /\ ~template0.hasResources
    /\ pc = "returned"
    /\ functionArn.kind = "string"
    /\ ~forwarderExists

\* C8: a failed describeSubscriptionFilters request raises nothing and
\* records no warning: the list is empty, canSubscribeLogGroup is true and
\* the subscription of that log group is added.
C8_LookupFailureSwallowed ==
    \A k \in DOMAIN decisions :
        LET d == decisions[k]
        IN  d.failed =>
              /\ pc # "thrown"
              /\ thrown = ""
              /\ d.subscriptionFilters = << >>
              /\ d.canSub
              /\ CountWarnings(errors, d.logGroupName) = 0
              /\ HasKey(template.Resources, scopedSubName(d.name))
              /\ Get(template.Resources, scopedSubName(d.name))
                   = SubscriptionResource(functionArn, d.name)

C8_Witness ==
    /\ pc = "returned"
    /\ \E k \in DOMAIN decisions : ~decisions[k].failed /\ ~decisions[k].canSub
    /\ \E k \in DOMAIN decisions :
          /\ decisions[k].failed
          /\ ~HasKey(template0.Resources, scopedSubName(decisions[k].name))
          /\ HasKey(template.Resources, scopedSubName(decisions[k].name))

\* C9: the prefix handed to canSubscribeLogGroup for resource R is
\* "<stackName>-<R>Subscription-" when the stack name is not empty and
\* "<serviceName>-<stage>-<R>Subscription-" otherwise; with a stack name, a
\* live filter that only matches the service and stage form does not count
\* as the integration's own.
C9_StackNameWins ==
    \A k \in DOMAIN decisions :
        LET d == decisions[k]
            stackForm == stackName \o <<"-">> \o d.name \o SubscriptionSuffix \o <<"-">>
            serviceForm == ServiceName \o <<"-">> \o Stage \o <<"-">> \o d.name
                              \o SubscriptionSuffix \o <<"-">>
        IN  /\ stackName # << >> => d.expectedSubName = stackForm
            /\ stackName = << >> => d.expectedSubName = serviceForm
            /\ ( /\ stackName # << >>
                 /\ Len(d.subscriptionFilters) >= 2
                 /\ \A j \in DOMAIN d.subscriptionFilters :
                       ~startsWith(d.subscriptionFilters[j], stackForm) )
               => ~d.canSub

C9_Witness ==
    \E k \in DOMAIN decisions :
        /\ stackName # << >>
        /\ decisions[k].subscriptionFilters = <<OwnServiceFilter, UnrelatedFilter>>
        /\ startsWith(OwnServiceFilter, ServiceForm(decisions[k].name))
        /\ ~decisions[k].canSub

\* A resource of type AWS::Logs::LogGroup whose name starts with /aws/lambda/.
FunctionLogGroup(r) ==
    /\ r.Type = "AWS::Logs::LogGroup"
    /\ Len(r.LogGroupName) >= 12
    /\ SubSeq(r.LogGroupName, 1, 12) = <<"/", "a", "w", "s", "/", "l", "a", "m", "b", "d", "a", "/">>

\* The keys a run may write: "<R>Subscription" for the Lambda log groups R
\* of the template it started from.
DerivedKeys ==
    {template0.Resources[k].name \o SubscriptionSuffix :
        k \in {j \in DOMAIN template0.Resources :
                  FunctionLogGroup(template0.Resources[j].resource)}}

\* C10: a run writes only keys "<R>Subscription" of Lambda log groups R,
\* removes nothing and leaves every other entry as it was.
C10_Frame ==
    /\ template.hasResources = template0.hasResources
    /\ Len(template.Resources) >= Len(template0.Resources)
    /\ \A k \in DOMAIN template.Resources :
          IF k <= Len(template0.Resources)
          THEN /\ template.Resources[k].name = template0.Resources[k].name
               /\ template.Resources[k].name \notin DerivedKeys
                    => template.Resources[k] = template0.Resources[k]
          ELSE template.Resources[k].name \in DerivedKeys

C10_Witness ==
    /\ pc = "returned"
    /\ Len(template.Resources) > Len(template0.Resources)
    /\ \E k \in DOMAIN template0.Resources :
          /\ template0.Resources[k].resource.Type = "AWS::Logs::LogGroup"
          /\ ~FunctionLogGroup(template0.Resources[k].resource)
          /\ template.Resources[k] = template0.Resources[k]

====
